---- MODULE Spec2Model ----
(***************************************************************************)
(* State-machine model of jeopardy.js: the board (categories), the         *)
(* rendered table #jeopardy, the loading view, the game-start attempts     *)
(* (setupAndStart) with their remote requests in flight, and the reveal    *)
(* handler (handleClick).                                                  *)
(*                                                                         *)
(* Indices are 1-based here and 0-based in the source: row r / column c    *)
(* of the model is $row.index() = r-1 / $cell.index() = c-1.               *)
(***************************************************************************)
EXTENDS Integers, Sequences, FiniteSets, Bags, TLC

\* ------------------------------------------------------------------------
\* Program constants
\* ------------------------------------------------------------------------
NUM_CATEGORIES == 6
NUM_QUESTIONS_PER_CAT == 5

\* ------------------------------------------------------------------------
\* Bounds of the model
\* ------------------------------------------------------------------------
\* Activations of the start / restart control and of body cells in one
\* behaviour of Spec (the game lifecycle).
MaxStarts == 2
MaxClicks == 1
\* The same in one behaviour of SpecReveal (one game, more activations).
MaxRevealStarts == 1
MaxRevealClicks == 3
\* Game-start attempts in flight at one time.
MaxInFlight == 4
\* Records in the candidate pool handed to getCategoryIds in SpecIds.
MaxWidePool == 7
\* Activations in one behaviour of SpecRecover (a failure, then a retry).
MaxRecoverStarts == 2
MaxRecoverClicks == 1
\* Activations of the start control in one behaviour of SpecLive.
MaxLiveStarts == 2

\* ------------------------------------------------------------------------
\* The remote service (external): what the two requests may answer
\* ------------------------------------------------------------------------
\* Candidate pools of GET /categories?count=100, as the identifiers of
\* their records: an empty pool and a pool of two categories.
Pools == { << >>, << 1, 2 >> }

\* Number of clue records the service holds for a category.  The service
\* does not promise NUM_QUESTIONS_PER_CAT of them: category 2 is short,
\* category 3 is long.
RemoteClueCount(id) == CASE id = 2 -> 4
                         [] id = 3 -> 6
                         [] OTHER  -> 5

\* Body of GET /category?id=<id>; "value" stands for the fields the
\* program does not read.
RemoteCategory(id) ==
    [ id    |-> id,
      title |-> <<"title", id>>,
      clues |-> [ r \in 1..RemoteClueCount(id) |->
                    [ question |-> <<"q", id, r>>,
                      answer   |-> <<"a", id, r>>,
                      value    |-> 100 * r ] ] ]

\* ------------------------------------------------------------------------
\* Helpers
\* ------------------------------------------------------------------------
Min(a, b) == IF a < b THEN a ELSE b

\* All reorderings of the sequence s.
Reorderings(s) ==
    LET n == Len(s)
        Bij == { p \in [1..n -> 1..n] : \A i, j \in 1..n : p[i] = p[j] => i = j }
    IN  { [i \in 1..n |-> s[p[i]]] : p \in Bij }

\* ------------------------------------------------------------------------
\* getCategoryIds (after a response with status 200)
\* ------------------------------------------------------------------------
\* data.sort(() => Math.random() - 0.5): some reordering of data.
ShuffleOutcomes(data) == Reorderings(data)

\* (Variant: slice(0, NUM_CATEGORIES + 1).)
SliceIdsOneMore(shuffled) ==
    SubSeq(shuffled, 1, Min(NUM_CATEGORIES + 1, Len(shuffled)))

\* shuffledCategories.slice(0, NUM_CATEGORIES).map(cat => cat.id)
SliceIds(shuffled) == SubSeq(shuffled, 1, Min(NUM_CATEGORIES, Len(shuffled)))

getCategoryIds(data) == { SliceIds(sh) : sh \in ShuffleOutcomes(data) }

\* ------------------------------------------------------------------------
\* getCategory (after a response with status 200)
\* ------------------------------------------------------------------------
MapClue(clue) ==
    [ question |-> clue.question, answer |-> clue.answer, showing |-> "null" ]

getCategory(data) ==
    [ title |-> data.title,
      clues |-> [ r \in 1..Len(data.clues) |-> MapClue(data.clues[r]) ] ]

\* ------------------------------------------------------------------------
\* Promise.all(categoryIds.map(getCategory)) once every request answered
\* ------------------------------------------------------------------------
\* arrival lists the request indices in the order their answers came.
\* (Variant: the results collected in the order of arrival.)
PromiseAllByArrival(ids, arrival) ==
    [ k \in 1..Len(ids) |-> getCategory(RemoteCategory(ids[arrival[k]])) ]

PromiseAll(ids, arrival) ==
    [ i \in 1..Len(ids) |-> getCategory(RemoteCategory(ids[i])) ]

\* ------------------------------------------------------------------------
\* The table #jeopardy
\* ------------------------------------------------------------------------
\* head: the <th> cells in document order; body: the <tr> rows of <td>
\* cells in document order.  A cell holds its text, its classes and the
\* number of click handlers bound directly on it.
Placeholder == <<"?">>

EmptyTable == [ head |-> <<>>, body |-> <<>> ]

NewCell == [ text |-> Placeholder, classes |-> {}, handlers |-> 0 ]

\* The header row and the NUM_QUESTIONS_PER_CAT body rows built for cats.
HeaderCells(cats) == [ c \in 1..Len(cats) |-> cats[c].title ]

\* (Variant: one body row per category instead of per question.)
BodyRowsPerCategory(cats) ==
    [ r \in 1..Len(cats) |-> [ c \in 1..Len(cats) |-> NewCell ] ]

BodyRows(cats) ==
    [ r \in 1..NUM_QUESTIONS_PER_CAT |-> [ c \in 1..Len(cats) |-> NewCell ] ]

\* (Variant: the table is not emptied.)
jqEmptyKeeps(table) == table

\* $table.empty(): every child of the table is removed.
jqEmpty(table) == EmptyTable

fillTable(table, cats) ==
    LET emptied == jqEmpty(table)
    IN  [ head |-> emptied.head \o HeaderCells(cats),
          body |-> emptied.body \o BodyRows(cats) ]

\* (Variant: the handler is bound on every body cell.)
BindAllCellHandlers(table) ==
    [ table EXCEPT !.body =
        [ r \in 1..Len(table.body) |->
            [ c \in 1..Len(table.body[r]) |->
                [ table.body[r][c] EXCEPT !.handlers = @ + 1 ] ] ] ]

\* $(".question").on("click", handleClick): one more direct handler on
\* every element that has the class "question" when the line runs.
BindQuestionHandlers(table) ==
    [ table EXCEPT !.body =
        [ r \in 1..Len(table.body) |->
            [ c \in 1..Len(table.body[r]) |->
                IF "question" \in table.body[r][c].classes
                THEN [ table.body[r][c] EXCEPT !.handlers = @ + 1 ]
                ELSE table.body[r][c] ] ] ]

\* ------------------------------------------------------------------------
\* handleClick
\* ------------------------------------------------------------------------
\* b = [categories, grid]; the event target is the cell at row r, column c.
\* categories[colIndex] or category.clues[rowIndex] may be undefined: the
\* handler then throws a TypeError before it changes anything.
ClueExists(cats, r, c) == c \in 1..Len(cats) /\ r \in 1..Len(cats[c].clues)

\* (Variant: a hidden clue goes straight to its answer.)
handleClickSkipsQuestion(b, r, c) ==
    IF ~ClueExists(b.categories, r, c) THEN b
    ELSE LET clue == b.categories[c].clues[r]
         IN  IF clue.showing = "answer" THEN b
             ELSE [ categories |-> [ b.categories EXCEPT ![c].clues[r].showing = "answer" ],
                    grid |-> [ b.grid EXCEPT !.body[r][c].text = clue.answer,
                                             !.body[r][c].classes =
                                                 (@ \ {"question"}) \cup {"answer"} ] ]

\* (Variant: a click on an answer shows the question again.)
handleClickToggles(b, r, c) ==
    IF ~ClueExists(b.categories, r, c) THEN b
    ELSE LET clue == b.categories[c].clues[r]
         IN  IF clue.showing = "question"
             THEN [ categories |-> [ b.categories EXCEPT ![c].clues[r].showing = "answer" ],
                    grid |-> [ b.grid EXCEPT !.body[r][c].text = clue.answer,
                                             !.body[r][c].classes =
                                                 (@ \ {"question"}) \cup {"answer"} ] ]
             ELSE [ categories |-> [ b.categories EXCEPT ![c].clues[r].showing = "question" ],
                    grid |-> [ b.grid EXCEPT !.body[r][c].text = clue.question,
                                             !.body[r][c].classes =
                                                 (@ \ {"answer"}) \cup {"question"} ] ]

\* (Variant: row and column index exchanged when the clue is looked up.)
handleClickSwapped(b, r, c) ==
    IF ~ClueExists(b.categories, c, r) THEN b
    ELSE LET clue == b.categories[r].clues[c]
         IN  CASE clue.showing = "null" ->
                    [ categories |-> [ b.categories EXCEPT ![r].clues[c].showing = "question" ],
                      grid |-> [ b.grid EXCEPT !.body[r][c].text = clue.question,
                                               !.body[r][c].classes = @ \cup {"question"} ] ]
               [] clue.showing = "question" ->
                    [ categories |-> [ b.categories EXCEPT ![r].clues[c].showing = "answer" ],
                      grid |-> [ b.grid EXCEPT !.body[r][c].text = clue.answer,
                                               !.body[r][c].classes =
                                                   (@ \ {"question"}) \cup {"answer"} ] ]
               [] OTHER -> b

\* (Variant: the class "question" is not removed when the answer is shown.)
handleClickKeepsQuestionClass(b, r, c) ==
    IF ~ClueExists(b.categories, r, c) THEN b
    ELSE LET clue == b.categories[c].clues[r]
         IN  CASE clue.showing = "null" ->
                    [ categories |-> [ b.categories EXCEPT ![c].clues[r].showing = "question" ],
                      grid |-> [ b.grid EXCEPT !.body[r][c].text = clue.question,
                                               !.body[r][c].classes = @ \cup {"question"} ] ]
               [] clue.showing = "question" ->
                    [ categories |-> [ b.categories EXCEPT ![c].clues[r].showing = "answer" ],
                      grid |-> [ b.grid EXCEPT !.body[r][c].text = clue.answer,
                                               !.body[r][c].classes = @ \cup {"answer"} ] ]
               [] OTHER -> b

handleClick(b, r, c) ==
    IF ~ClueExists(b.categories, r, c) THEN b
    ELSE LET clue == b.categories[c].clues[r]
         IN  CASE clue.showing = "null" ->
                    [ categories |-> [ b.categories EXCEPT ![c].clues[r].showing = "question" ],
                      grid |-> [ b.grid EXCEPT !.body[r][c].text = clue.question,
                                               !.body[r][c].classes = @ \cup {"question"} ] ]
               [] clue.showing = "question" ->
                    [ categories |-> [ b.categories EXCEPT ![c].clues[r].showing = "answer" ],
                      grid |-> [ b.grid EXCEPT !.body[r][c].text = clue.answer,
                                               !.body[r][c].classes =
                                                   (@ \ {"question"}) \cup {"answer"} ] ]
               [] OTHER -> b

\* One click on a cell runs the handlers bound on the cell, then the
\* handler delegated on document for "#jeopardy td".
RECURSIVE RunClickHandlers(_, _, _, _)
RunClickHandlers(b, r, c, n) ==
    IF n = 0 THEN b ELSE RunClickHandlers(handleClick(b, r, c), r, c, n - 1)

DispatchCellClick(b, r, c) ==
    RunClickHandlers(b, r, c, b.grid.body[r][c].handlers + 1)

\* ------------------------------------------------------------------------
\* State
\* ------------------------------------------------------------------------
VARIABLES
    categories,       \* the global board: sequence of [title, clues]
    grid,             \* the table #jeopardy: [head, body]
    jeopardyVisible,  \* #jeopardy is displayed
    loadingVisible,   \* the element $("#loading") selects is displayed
    buttonText,       \* text of the element $("#start-button") selects
    startHandlers,    \* click handlers bound on that element, in order
    inflight,         \* bag of the setupAndStart invocations awaiting answers
    starts,           \* activations of the start control so far
    clicks,           \* activations of body cells so far
    ev,               \* what the last step was (history)
    out,              \* what the last step showed or logged
    recovery          \* where the run stands after a failure (history,
                      \* kept by SpecRecover only)

vars == << categories, grid, jeopardyVisible, loadingVisible, buttonText,
           startHandlers, inflight, starts, clicks, ev, out, recovery >>

\* The description of a step; the fields a kind does not use keep these
\* values.
NoEv == [ kind |-> "init", row |-> 0, col |-> 0, was |-> "none",
          stage |-> "none", ids |-> << >>, arrival |-> << >>,
          prevRevealed |-> FALSE, pool |-> << >> ]

\* ------------------------------------------------------------------------
\* Page load: the script's top-level statements and the five ready handlers
\* ------------------------------------------------------------------------
\* The page's markup is not part of the script.  What the script leaves
\* behind depends on whether the markup has a #start-button (and whether
\* the script runs after it was parsed) and whether it has a #loading.
\* The markup is taken to have the table #jeopardy.  Two kinds of markup
\* are explored for the button: none, and one parsed before the script
\* runs (StartHandlersOf also covers a button parsed after the script).
Pages == [ button : {"none", "parsedBeforeScript"}, loading : BOOLEAN ]

\* Handlers on the first #start-button once the page is ready: line 186
\* binds only if the button exists when the script runs, line 198 only if
\* the markup has it; line 212 appends a button, after which lines 213 and
\* 217 bind on the first one.
StartHandlersOf(page) ==
    (IF page.button = "parsedBeforeScript" THEN << "setupAndStart" >> ELSE << >>)
    \o (IF page.button # "none" THEN << "setupAndStart" >> ELSE << >>)
    \o << "setupAndStart" >>
    \o << "restartThenSetupAndStart" >>

\* Line 195 shows the markup's #loading; without one, line 207 appends a
\* hidden one.
LoadingAfterReady(page) == page.loading

\* After the ready handlers #jeopardy is hidden (line 194) and holds the
\* two cell-less tables of lines 203 and 208: no header or body cell.

InitWith(firstEv) ==
    \E page \in Pages :
        /\ categories = << >>
        /\ grid = EmptyTable
        /\ jeopardyVisible = FALSE
        /\ loadingVisible = LoadingAfterReady(page)
        /\ buttonText = "Start"
        /\ startHandlers = StartHandlersOf(page)
        /\ inflight = EmptyBag
        /\ starts = 0
        /\ clicks = 0
        /\ ev = firstEv
        /\ out = {}
        /\ recovery = "none"

Init == InitWith(NoEv)

\* ------------------------------------------------------------------------
\* showLoadingView / hideLoadingView
\* ------------------------------------------------------------------------
showLoadingView(v) == [ v EXCEPT !.jeopardy = FALSE, !.loading = TRUE ]

\* (Variant: only the indicator is hidden, the board is not shown again.)
hideLoadingViewOnlyIndicator(v) == [ v EXCEPT !.loading = FALSE ]

hideLoadingView(v) == [ v EXCEPT !.jeopardy = TRUE, !.loading = FALSE ]

\* ------------------------------------------------------------------------
\* setupAndStart
\* ------------------------------------------------------------------------
\* An invocation that has sent its category-list request.
NewAttempt == [ phase |-> "list", ids |-> << >>, arrival |-> << >> ]

\* The invocation up to its first await.  p = [view, text, launched].
setupAndStartBegin(p) ==
    [ p EXCEPT !.view = showLoadingView(p.view), !.launched = @ + 1 ]

\* The handlers of one click on the start control, in binding order.
RECURSIVE RunStartHandlers(_, _)
RunStartHandlers(hs, p) ==
    IF hs = << >> THEN p
    ELSE RunStartHandlers(Tail(hs),
            IF Head(hs) = "setupAndStart"
            THEN setupAndStartBegin(p)
            ELSE setupAndStartBegin([ p EXCEPT !.text = "Restart" ]))

\* (Variant: the table is rendered before categories is assigned.)
setupAndStartSucceedRendersStale(b, cats) ==
    [ categories |-> cats,
      grid       |-> BindQuestionHandlers(fillTable(b.grid, b.categories)),
      view       |-> hideLoadingView(b.view) ]

\* The try block after Promise.all fulfilled with cats.
\* b = [categories, grid, view].
setupAndStartSucceed(b, cats) ==
    [ categories |-> cats,
      grid       |-> BindQuestionHandlers(fillTable(b.grid, cats)),
      view       |-> hideLoadingView(b.view) ]

\* (Variant: the categories that did load are rendered.)
setupAndStartCatchRendersLoaded(b, a) ==
    LET cats == [ k \in 1..Len(a.arrival) |->
                    getCategory(RemoteCategory(a.ids[a.arrival[k]])) ]
    IN  [ board |-> [ b EXCEPT !.categories = cats,
                               !.grid = fillTable(b.grid, cats) ],
          out |-> { "console.error", "alert" } ]

\* (Variant: the failure is logged and not shown.)
setupAndStartCatchSilent(b, a) ==
    [ board |-> b, out |-> { "console.error" } ]

\* The catch block, entered when the list request or the first category
\* request of attempt a fails: console.error and alert, nothing else.
setupAndStartCatch(b, a) ==
    [ board |-> b, out |-> { "console.error", "alert" } ]

\* ------------------------------------------------------------------------
\* Actions
\* ------------------------------------------------------------------------
Board == [ categories |-> categories, grid |-> grid,
           view |-> [ jeopardy |-> jeopardyVisible, loading |-> loadingVisible ] ]

InFlightCount == BagCardinality(inflight)

Revealed(cats) ==
    \E c \in 1..Len(cats) : \E r \in 1..Len(cats[c].clues) :
        cats[c].clues[r].showing # "null"

\* The user activates the start / restart control.
ClickStartWithin(maxStarts) ==
    /\ starts < maxStarts
    /\ InFlightCount + Len(startHandlers) <= MaxInFlight
    /\ LET p == RunStartHandlers(startHandlers,
                   [ view |-> Board.view, text |-> buttonText, launched |-> 0 ])
       IN  /\ jeopardyVisible' = p.view.jeopardy
           /\ loadingVisible' = p.view.loading
           /\ buttonText' = p.text
           /\ inflight' = IF p.launched = 0 THEN inflight
                          ELSE inflight (+) [ x \in { NewAttempt } |-> p.launched ]
    /\ starts' = starts + 1
    /\ ev' = [ NoEv EXCEPT !.kind = "start" ]
    /\ out' = {}
    /\ UNCHANGED << categories, grid, startHandlers, clicks >>

\* Statuses a request ends with: 200, another 2xx status (the check of
\* response.status throws), a status outside 2xx (axios rejects), and 0
\* for no answer at all (axios rejects).
ResponseStatuses == { 200, 204, 500, 0 }

\* The awaiting setupAndStart gets a rejection instead of a value.
RequestFails(status) == status # 200

FailingStatuses == { status \in ResponseStatuses : RequestFails(status) }

PassingStatuses == { status \in ResponseStatuses : ~RequestFails(status) }

\* Attempt a leaves the try block for the catch block.
Fail(a, stage) ==
    LET res == setupAndStartCatch(Board, a)
    IN  /\ categories' = res.board.categories
        /\ grid' = res.board.grid
        /\ jeopardyVisible' = res.board.view.jeopardy
        /\ loadingVisible' = res.board.view.loading
        /\ out' = res.out
        /\ inflight' = inflight (-) SetToBag({ a })
        /\ ev' = [ NoEv EXCEPT !.kind = "failed", !.stage = stage,
                               !.arrival = a.arrival ]
        /\ UNCHANGED << buttonText, startHandlers, starts, clicks >>

\* Attempt a's Promise.all fulfilled: the rest of the try block runs.
Succeed(a, ids, arrival) ==
    LET res == setupAndStartSucceed(Board, PromiseAll(ids, arrival))
    IN  /\ categories' = res.categories
        /\ grid' = res.grid
        /\ jeopardyVisible' = res.view.jeopardy
        /\ loadingVisible' = res.view.loading
        /\ out' = {}
        /\ inflight' = inflight (-) SetToBag({ a })
        /\ ev' = [ NoEv EXCEPT !.kind = "ready",
                               !.ids = ids, !.arrival = arrival,
                               !.prevRevealed = Revealed(categories) ]
        /\ UNCHANGED << buttonText, startHandlers, starts, clicks >>

\* The category-list request of an attempt fails (transport failure or a
\* status other than 200).
ListFails ==
    \E a \in BagToSet(inflight) :
        /\ a.phase = "list"
        /\ FailingStatuses # { }
        /\ Fail(a, "list")

\* The category-list request of an attempt answers 200 with a pool: the
\* identifiers are chosen and one getCategory request per identifier is
\* sent.  With no identifier Promise.all fulfils at once.
ListAnswers ==
    \E a \in BagToSet(inflight) :
        /\ a.phase = "list"
        /\ PassingStatuses # { }
        /\ \E data \in Pools : \E ids \in getCategoryIds(data) :
             LET a2 == [ phase |-> "cats", ids |-> ids, arrival |-> << >> ]
             IN  IF ids = << >>
                 THEN Succeed(a, ids, << >>)
                 ELSE /\ inflight' = (inflight (-) SetToBag({ a })) (+) SetToBag({ a2 })
                      /\ ev' = [ NoEv EXCEPT !.kind = "progress" ]
                      /\ out' = {}
                      /\ UNCHANGED << categories, grid, jeopardyVisible,
                                      loadingVisible, buttonText, startHandlers,
                                      starts, clicks >>

\* (Variant: the answer to the first request is never awaited.)
PendingSkipsFirst(a) ==
    { i \in 2..Len(a.ids) : \A k \in 1..Len(a.arrival) : a.arrival[k] # i }

Pending(a) == { i \in 1..Len(a.ids) : \A k \in 1..Len(a.arrival) : a.arrival[k] # i }

\* One getCategory request of an attempt fails.  The attempt's other
\* requests are still answered later; nothing reads their answers.
CategoryFails ==
    \E a \in BagToSet(inflight) :
        /\ a.phase = "cats"
        /\ Pending(a) # { }
        /\ FailingStatuses # { }
        /\ Fail(a, "category")

\* One getCategory request of an attempt answers 200.  The last answer
\* fulfils Promise.all.
CategoryAnswers ==
    \E a \in BagToSet(inflight) :
        /\ a.phase = "cats"
        /\ PassingStatuses # { }
        /\ \E i \in Pending(a) :
             LET arrival == Append(a.arrival, i)
             IN  IF Len(arrival) = Len(a.ids)
                 THEN Succeed(a, a.ids, arrival)
                 ELSE /\ inflight' = (inflight (-) SetToBag({ a }))
                                       (+) SetToBag({ [ a EXCEPT !.arrival = arrival ] })
                      /\ ev' = [ NoEv EXCEPT !.kind = "progress" ]
                      /\ out' = {}
                      /\ UNCHANGED << categories, grid, jeopardyVisible,
                                      loadingVisible, buttonText, startHandlers,
                                      starts, clicks >>

\* The rows whose cells the user activates: the first and the last.
ClickRows == { r \in 1..Len(grid.body) : r = 1 \/ r = Len(grid.body) }

\* The user activates the body cell at row r, column c.  A hidden table
\* takes no clicks.
ClickCellWithin(maxClicks) ==
    /\ jeopardyVisible
    /\ clicks < maxClicks
    /\ \E r \in ClickRows : \E c \in 1..Len(grid.body[r]) :
         LET res == DispatchCellClick([ categories |-> categories, grid |-> grid ], r, c)
         IN  /\ categories' = res.categories
             /\ grid' = res.grid
             /\ ev' = [ NoEv EXCEPT !.kind = "click", !.row = r, !.col = c,
                          !.was = IF ClueExists(categories, r, c)
                                  THEN categories[c].clues[r].showing
                                  ELSE "undefined" ]
    /\ clicks' = clicks + 1
    /\ out' = {}
    /\ UNCHANGED << jeopardyVisible, loadingVisible, buttonText, startHandlers,
                    inflight, starts >>

ClickStart == ClickStartWithin(MaxStarts)

ClickCell == ClickCellWithin(MaxClicks)

Next ==
    \/ ClickStart /\ UNCHANGED recovery
    \/ ListFails /\ UNCHANGED recovery
    \/ ListAnswers /\ UNCHANGED recovery
    \/ CategoryFails /\ UNCHANGED recovery
    \/ CategoryAnswers /\ UNCHANGED recovery
    \/ ClickCell /\ UNCHANGED recovery

Spec == Init /\ [][Next]_vars

\* One game with more cell activations.
RevealClickStart == ClickStartWithin(MaxRevealStarts)

RevealClickCell == ClickCellWithin(MaxRevealClicks)

NextReveal ==
    \/ RevealClickStart /\ UNCHANGED recovery
    \/ ListFails /\ UNCHANGED recovery
    \/ ListAnswers /\ UNCHANGED recovery
    \/ CategoryFails /\ UNCHANGED recovery
    \/ CategoryAnswers /\ UNCHANGED recovery
    \/ RevealClickCell /\ UNCHANGED recovery

SpecReveal == Init /\ [][NextReveal]_vars

\* The same program, with the history of failures kept in recovery:
\* "failed" once a game-start attempt has failed, "retrying" once the
\* start control was activated after that and no attempt has failed since.
RecoverClickStart == ClickStartWithin(MaxRecoverStarts)

RecoverClickCell == ClickCellWithin(MaxRecoverClicks)

NextRecover ==
    \/ RecoverClickStart
          /\ recovery' = IF recovery = "failed" THEN "retrying" ELSE recovery
    \/ ListFails /\ recovery' = "failed"
    \/ ListAnswers /\ UNCHANGED recovery
    \/ CategoryFails /\ recovery' = "failed"
    \/ CategoryAnswers /\ UNCHANGED recovery
    \/ RecoverClickCell /\ UNCHANGED recovery

SpecRecover == Init /\ [][NextRecover]_vars

\* The start control and the remote service alone, every request being
\* answered or failing in the end: a request that is outstanding keeps
\* its completion enabled until the completion happens, so weak fairness
\* on the completions says that no request stays outstanding forever.
LiveClickStart == ClickStartWithin(MaxLiveStarts)

ListCompletes == ( ListFails \/ ListAnswers ) /\ UNCHANGED recovery

CategoryCompletes == ( CategoryFails \/ CategoryAnswers ) /\ UNCHANGED recovery

NextLive ==
    \/ LiveClickStart /\ UNCHANGED recovery
    \/ ListFails /\ UNCHANGED recovery
    \/ ListAnswers /\ UNCHANGED recovery
    \/ CategoryFails /\ UNCHANGED recovery
    \/ CategoryAnswers /\ UNCHANGED recovery

SpecLive ==
    /\ Init /\ [][NextLive]_vars
    /\ WF_vars(ListCompletes)
    /\ WF_vars(CategoryCompletes)

\* getCategoryIds on its own, over candidate pools of up to MaxWidePool
\* records (the pool's records are written as their identifiers, which
\* are distinct): the response body is drawn at the start, one step
\* applies the function and records what it returned.
WidePools == { [ i \in 1..n |-> i ] : n \in 0..MaxWidePool }

InitIds == \E data \in WidePools :
               InitWith([ NoEv EXCEPT !.kind = "list", !.pool = data ])

ApplyGetCategoryIds ==
    /\ ev.kind = "list"
    /\ \E ids \in getCategoryIds(ev.pool) :
           ev' = [ ev EXCEPT !.kind = "ids", !.ids = ids ]
    /\ UNCHANGED << categories, grid, jeopardyVisible, loadingVisible,
                    buttonText, startHandlers, inflight, starts, clicks,
                    out, recovery >>

NextIds == ApplyGetCategoryIds

SpecIds == InitIds /\ [][NextIds]_vars

\* ------------------------------------------------------------------------
\* Properties
\* ------------------------------------------------------------------------
ShowingSteps == { << "null", "question" >>, << "question", "answer" >> }

SameShape(cats1, cats2) ==
    /\ Len(cats1) = Len(cats2)
    /\ \A c \in 1..Len(cats1) : Len(cats1[c].clues) = Len(cats2[c].clues)

GridHasNoCells ==
    /\ grid.head = << >>
    /\ \A r \in 1..Len(grid.body) : grid.body[r] = << >>

\* C1: as long as the board is not replaced by a finished game start, the
\* clues stay the same and a clue's showing changes only in a step that
\* is a cell activation, and then only from null to "question" or from
\* "question" to "answer".
C1_ShowingOnlyAdvances ==
    [][ ev'.kind # "ready" =>
          /\ SameShape(categories, categories')
          /\ \A c \in 1..Len(categories) : \A r \in 1..Len(categories[c].clues) :
               LET old == categories[c].clues[r].showing
                   new == categories'[c].clues[r].showing
               IN  old # new =>
                     /\ ev'.kind = "click"
                     /\ << old, new >> \in ShowingSteps ]_vars

\* Witness of C1: a cell activation has just taken a clue from "question"
\* to "answer".
C1_Witness ==
    /\ ev.kind = "click"
    /\ ev.was = "question"
    /\ categories[ev.col].clues[ev.row].showing = "answer"

\* C2: activating a cell whose clue shows its answer changes neither the
\* board nor the table, each time it is done.
C2_AnswerClickIsNoOp ==
    [][ ( /\ ev'.kind = "click"
          /\ ClueExists(categories, ev'.row, ev'.col)
          /\ categories[ev'.col].clues[ev'.row].showing = "answer" )
        => /\ categories' = categories
           /\ grid' = grid ]_vars

\* Witness of C2: the last step activated a cell whose clue already
\* showed its answer.
C2_Witness ==
    /\ ev.kind = "click"
    /\ ev.was = "answer"
    /\ categories[ev.col].clues[ev.row].showing = "answer"
    /\ grid.body[ev.row][ev.col].text = categories[ev.col].clues[ev.row].answer

\* C3: right after a game start succeeded, the i-th category and the i-th
\* header cell are those of the i-th identifier that getCategoryIds
\* returned to that attempt, in whatever order the answers arrived.
C3_BoardInIdentifierOrder ==
    ev.kind = "ready" =>
        /\ Len(categories) = Len(ev.ids)
        /\ Len(grid.head) = Len(ev.ids)
        /\ \A i \in 1..Len(ev.ids) :
             /\ categories[i].title = RemoteCategory(ev.ids[i]).title
             /\ \A r \in 1..Len(categories[i].clues) :
                  /\ categories[i].clues[r].question
                       = RemoteCategory(ev.ids[i]).clues[r].question
                  /\ categories[i].clues[r].answer
                       = RemoteCategory(ev.ids[i]).clues[r].answer
             /\ grid.head[i] = RemoteCategory(ev.ids[i]).title

\* Witness of C3: a game start succeeded whose answers arrived in another
\* order than the identifiers' (the second request answered first).
C3_Witness ==
    /\ ev.kind = "ready"
    /\ Len(ev.ids) = 2
    /\ ev.arrival = << 2, 1 >>

\* C4: the step in which a request of an attempt fails ends that attempt
\* and changes neither categories nor the table; categories is replaced
\* and the table rebuilt only by the step in which an attempt's last
\* request succeeded.
C4_FailedAttemptBuildsNothing ==
    [][ /\ ev'.kind = "failed" =>
             /\ categories' = categories
             /\ grid' = grid
             /\ BagCardinality(inflight') = BagCardinality(inflight) - 1
        /\ ( ~SameShape(categories, categories') \/ grid'.head # grid.head )
             => /\ ev'.kind = "ready"
                /\ Len(categories') = Len(ev'.ids)
                /\ Len(ev'.arrival) = Len(ev'.ids) ]_vars

\* Witness of C4: a category request failed after another request of the
\* same attempt had succeeded.
C4_Witness ==
    /\ ev.kind = "failed"
    /\ ev.stage = "category"
    /\ Len(ev.arrival) >= 1

\* C5: the step in which an attempt fails, at the category-list request
\* or at a category request, shows the alert and logs to the console.
C5_FailureShownAndLogged ==
    ev.kind = "failed" => ( "alert" \in out /\ "console.error" \in out )

\* Witness of C5: an attempt failed at a category request.
C5_Witness ==
    /\ ev.kind = "failed"
    /\ ev.stage = "category"
    /\ out = { "console.error", "alert" }

\* C6 (the claim, for a failure that leaves no other attempt in flight):
\* after a game-start attempt fails the loading indicator is hidden.
C6_LoadingHiddenAfterFailure ==
    ( ev.kind = "failed" /\ inflight = EmptyBag ) => ~loadingVisible

\* C7 (the claim, for a failure that leaves no other attempt in flight and
\* the table hidden): after a game-start attempt fails the table holds no
\* header cell and no body cell.
C7_TableEmptyAfterFailure ==
    ( ev.kind = "failed" /\ inflight = EmptyBag /\ ~jeopardyVisible )
        => GridHasNoCells

\* C8: activating the body cell at row r, column c changes at most the
\* clue categories[c].clues[r] and the cell at row r, column c; if that
\* clue is hidden or shows its question, the cell then shows that clue's
\* question or answer.  Titles, header cells and every other clue and
\* cell stay as they were.
C8_ClickTouchesOnlyItsClueAndCell ==
    [][ ev'.kind = "click" =>
          LET r == ev'.row
              c == ev'.col
          IN  /\ SameShape(categories, categories')
              /\ grid'.head = grid.head
              /\ Len(grid'.body) = Len(grid.body)
              /\ \A c2 \in 1..Len(categories) :
                   /\ categories'[c2].title = categories[c2].title
                   /\ \A r2 \in 1..Len(categories[c2].clues) :
                        << r2, c2 >> # << r, c >> =>
                            categories'[c2].clues[r2] = categories[c2].clues[r2]
              /\ \A r2 \in 1..Len(grid.body) :
                   /\ Len(grid'.body[r2]) = Len(grid.body[r2])
                   /\ \A c2 \in 1..Len(grid.body[r2]) :
                        << r2, c2 >> # << r, c >> =>
                            grid'.body[r2][c2] = grid.body[r2][c2]
              /\ ClueExists(categories, r, c) =>
                   LET clue == categories[c].clues[r]
                   IN  /\ clue.showing = "null" =>
                             /\ categories'[c].clues[r].showing = "question"
                             /\ grid'.body[r][c].text = clue.question
                       /\ clue.showing = "question" =>
                             /\ categories'[c].clues[r].showing = "answer"
                             /\ grid'.body[r][c].text = clue.answer ]_vars

\* Witness of C8: a hidden cell of a two-column board was activated while
\* another clue of the board was already revealed.
C8_Witness ==
    /\ ev.kind = "click"
    /\ ev.was = "null"
    /\ Len(categories) = 2
    /\ categories[ev.col].clues[ev.row].showing = "question"
    /\ \E c2 \in 1..Len(categories) : \E r2 \in 1..Len(categories[c2].clues) :
         /\ << r2, c2 >> # << ev.row, ev.col >>
         /\ categories[c2].clues[r2].showing # "null"

\* C9: right after fillTable rendered a board of N categories the table
\* has N header cells, the titles in board order, and
\* NUM_QUESTIONS_PER_CAT rows of N body cells, each showing the
\* placeholder with no class.
C9_RenderedGridShape ==
    ev.kind = "ready" =>
        LET N == Len(categories)
        IN  /\ Len(grid.head) = N
            /\ \A c \in 1..N : grid.head[c] = categories[c].title
            /\ Len(grid.body) = NUM_QUESTIONS_PER_CAT
            /\ \A r \in 1..Len(grid.body) :
                 /\ Len(grid.body[r]) = N
                 /\ \A c \in 1..Len(grid.body[r]) :
                      /\ grid.body[r][c].text = Placeholder
                      /\ grid.body[r][c].classes = { }

\* Witness of C9: a board of two categories was just rendered.
C9_Witness ==
    /\ ev.kind = "ready"
    /\ Len(categories) = 2
    /\ Len(grid.head) = 2

\* C10: right after a start or restart succeeded, whatever the previous
\* board showed, every clue is hidden, every body cell shows the
\* placeholder without the "question" or "answer" class, and the table
\* holds the cells of the new board only.
C10_RestartDiscardsPriorBoard ==
    ev.kind = "ready" =>
        /\ ~Revealed(categories)
        /\ Len(grid.head) = Len(categories)
        /\ Len(grid.body) = NUM_QUESTIONS_PER_CAT
        /\ \A r \in 1..Len(grid.body) :
             /\ Len(grid.body[r]) = Len(categories)
             /\ \A c \in 1..Len(grid.body[r]) :
                  /\ grid.body[r][c].text = Placeholder
                  /\ grid.body[r][c].classes \cap { "question", "answer" } = { }

\* Witness of C10: a game start succeeded on top of a board that had a
\* revealed clue.
C10_Witness ==
    /\ ev.kind = "ready"
    /\ ev.prevRevealed
    /\ Len(categories) >= 1

\* C11: while any game-start attempt is still loading, the loading
\* indicator is shown and the board is hidden.
C11_LoadingShownWhileInProgress ==
    inflight # EmptyBag => (loadingVisible /\ ~jeopardyVisible)

Range(s) == { s[i] : i \in 1..Len(s) }

\* C12: what getCategoryIds returns has no identifier twice, holds only
\* identifiers of the pool, and holds exactly NUM_CATEGORIES of them when
\* the pool has at least that many records.
C12_IdsDistinctFromPool ==
    ev.kind = "ids" =>
        /\ \A i, j \in 1..Len(ev.ids) : ev.ids[i] = ev.ids[j] => i = j
        /\ Range(ev.ids) \subseteq Range(ev.pool)
        /\ Len(ev.pool) >= NUM_CATEGORIES => Len(ev.ids) = NUM_CATEGORIES

C12_Witness ==
    /\ ev.kind = "ids"
    /\ Len(ev.pool) > NUM_CATEGORIES
    /\ Len(ev.ids) = NUM_CATEGORIES
    /\ ev.ids[1] = ev.pool[Len(ev.pool)]
    /\ ev.pool[1] \notin Range(ev.ids)

\* C13: after a finished game start every category of the board holds
\* exactly NUM_QUESTIONS_PER_CAT clues, so that every body cell of the
\* grid has a clue and every clue has a body cell.
C13_EveryCellHasItsClue ==
    ev.kind = "ready" =>
        /\ \A c \in 1..Len(categories) :
              Len(categories[c].clues) = NUM_QUESTIONS_PER_CAT
        /\ \A r \in 1..Len(grid.body) : \A c \in 1..Len(grid.body[r]) :
              ClueExists(categories, r, c)

\* What a body cell shows for a clue in the given state.
CellShows(cell, clue) ==
    CASE clue.showing = "null" ->
             cell.text = Placeholder /\ cell.classes = {}
      [] clue.showing = "question" ->
             cell.text = clue.question /\ cell.classes = {"question"}
      [] clue.showing = "answer" ->
             cell.text = clue.answer /\ cell.classes = {"answer"}

\* C14: every body cell shows what the state of its clue says: the
\* placeholder and no class while the clue is hidden, the question with
\* the class "question" while the question shows, the answer with the
\* class "answer" only while the answer shows; a cell whose column has no
\* clue for its row shows the placeholder.
C14_CellShowsClueState ==
    \A r \in 1..Len(grid.body) : \A c \in 1..Len(grid.body[r]) :
        IF ClueExists(categories, r, c)
        THEN CellShows(grid.body[r][c], categories[c].clues[r])
        ELSE grid.body[r][c].text = Placeholder /\ grid.body[r][c].classes = {}

C14_Witness ==
    /\ Len(categories) = 2
    /\ categories[1].clues[1].showing = "answer"
    /\ grid.body[1][1].classes = {"answer"}
    /\ categories[2].clues[1].showing = "question"
    /\ grid.body[1][2].classes = {"question"}
    /\ categories[1].clues[NUM_QUESTIONS_PER_CAT].showing = "null"
    /\ grid.body[NUM_QUESTIONS_PER_CAT][1].text = Placeholder

\* C15: one activation of a body cell moves its clue one step and no
\* further: a hidden clue then shows its question (not its answer), a
\* clue showing its question then shows its answer; and no body cell ever
\* carries a click handler of its own besides the delegated one.
C15_OneStepPerActivation ==
    [][ /\ \A r \in 1..Len(grid'.body) : \A c \in 1..Len(grid'.body[r]) :
             grid'.body[r][c].handlers = 0
        /\ ( ev'.kind = "click" /\ ClueExists(categories, ev'.row, ev'.col) ) =>
             LET before == categories[ev'.col].clues[ev'.row].showing
                 after  == categories'[ev'.col].clues[ev'.row].showing
                 cell   == grid'.body[ev'.row][ev'.col]
             IN  /\ before = "null" =>
                       after = "question" /\ cell.classes = {"question"}
                 /\ before = "question" =>
                       after = "answer" /\ cell.classes = {"answer"} ]_vars

\* Witness of C15: every attempt of the start has rendered, and a cell
\* showing its question was activated.
C15_Witness ==
    /\ ev.kind = "click"
    /\ ev.was = "question"
    /\ inflight = EmptyBag
    /\ grid.body[ev.row][ev.col].classes = {"answer"}
    /\ grid.body[ev.row][ev.col].handlers = 0

\* cats with every clue hidden.
Unrevealed(cats) ==
    [ c \in 1..Len(cats) |->
        [ cats[c] EXCEPT !.clues =
            [ r \in 1..Len(cats[c].clues) |->
                [ cats[c].clues[r] EXCEPT !.showing = "null" ] ] ] ]

\* The boards one attempt can load as a whole.
WholeBoards ==
    { PromiseAll(ids, << >>) : ids \in UNION { getCategoryIds(data) : data \in Pools } }

\* C16: the header cells are always the titles of categories, in order,
\* and categories is always the whole board of one attempt (or still
\* empty); the board and the header change only in the step in which an
\* attempt's loads completed, and then to the whole board of that attempt,
\* so the attempt that completes last decides the board; an attempt in
\* flight goes away only by completing or by failing itself, one per
\* step.
C16_LastCompletedAttemptWins ==
    /\ []( /\ grid.head = HeaderCells(categories)
           /\ ( categories = << >> \/ Unrevealed(categories) \in WholeBoards ) )
    /\ [][ /\ ( \/ Unrevealed(categories') # Unrevealed(categories)
                \/ grid'.head # grid.head ) => ev'.kind = "ready"
           /\ ev'.kind = "ready" =>
                 /\ categories' = PromiseAll(ev'.ids, ev'.arrival)
                 /\ grid'.head = HeaderCells(categories')
           /\ InFlightCount' < InFlightCount =>
                 /\ ev'.kind \in { "ready", "failed" }
                 /\ InFlightCount' = InFlightCount - 1 ]_vars

\* Witness of C16: of the attempts of one activation, one had rendered a
\* board on which a clue was revealed, another one then completed and
\* replaced it, and yet another is still in flight.
C16_Witness ==
    /\ ev.kind = "ready"
    /\ ev.prevRevealed
    /\ starts = 1
    /\ inflight # EmptyBag
    /\ Len(categories) = 2

\* C17: the first activation of the start control starts exactly one
\* game-start attempt (one setupAndStart invocation, one category-list
\* request).
C17_OneAttemptPerActivation ==
    ( ev.kind = "start" /\ starts = 1 ) => InFlightCount = 1

\* C18: once a game-start attempt has failed, the start control has been
\* activated again, no attempt has failed since and none is left in
\* flight, the board is shown, the loading indicator is hidden, the table
\* holds the header and the NUM_QUESTIONS_PER_CAT rows of the current
\* categories, the start control still has its handlers, and a hidden
\* clue whose cell was activated shows its question.
C18_RecoversAfterFailure ==
    ( recovery = "retrying" /\ inflight = EmptyBag ) =>
        /\ jeopardyVisible
        /\ ~loadingVisible
        /\ startHandlers # << >>
        /\ grid.head = HeaderCells(categories)
        /\ Len(grid.body) = NUM_QUESTIONS_PER_CAT
        /\ \A r \in 1..Len(grid.body) : Len(grid.body[r]) = Len(categories)
        /\ ( ev.kind = "click" /\ ev.was = "null" ) =>
              /\ categories[ev.col].clues[ev.row].showing = "question"
              /\ grid.body[ev.row][ev.col].text =
                     categories[ev.col].clues[ev.row].question

\* Witness of C18: after a failure and a retry whose attempts all
\* succeeded, a hidden cell of the new board was activated.
C18_Witness ==
    /\ recovery = "retrying"
    /\ inflight = EmptyBag
    /\ jeopardyVisible
    /\ ev.kind = "click"
    /\ ev.was = "null"
    /\ Len(categories) = 2
    /\ grid.body[ev.row][ev.col].classes = {"question"}

\* C19: when every request completes in the end, the attempts in flight
\* all end; an attempt ends in exactly one step, which either renders the
\* board and shows it without any failure notice, or shows the failure
\* notice without rendering or showing anything; no other step takes an
\* attempt out of flight.
C19_EveryAttemptEndsOneWay ==
    /\ ( inflight # EmptyBag ) ~> ( inflight = EmptyBag )
    /\ [][ /\ InFlightCount' < InFlightCount <=> ev'.kind \in { "ready", "failed" }
           /\ InFlightCount' < InFlightCount => InFlightCount' = InFlightCount - 1
           /\ ev'.kind = "ready" =>
                 /\ out' = {}
                 /\ jeopardyVisible' /\ ~loadingVisible'
                 /\ grid'.head = HeaderCells(categories')
           /\ ev'.kind = "failed" =>
                 /\ "alert" \in out'
                 /\ categories' = categories /\ grid' = grid
                 /\ jeopardyVisible' = jeopardyVisible
                 /\ loadingVisible' = loadingVisible ]_vars

\* Witness of C19: every attempt of an activation has ended, one of them
\* by rendering the board and the last one by failing at a category
\* request.
C19_Witness ==
    /\ starts >= 1
    /\ inflight = EmptyBag
    /\ ev.kind = "failed"
    /\ ev.stage = "category"
    /\ jeopardyVisible
    /\ Len(categories) = 2
====
